---- MODULE Spec2Model ----
(***************************************************************************)
(* Model of src/sparse_dot_topn/sparse_dot_topn_source.cpp: the three      *)
(* entry points sparse_dot_topn_source, sparse_dot_plus_minmax_topn_source *)
(* and sparse_dot_only_minmax_topn_source over CSR matrices A and B.       *)
(*                                                                         *)
(* C arrays are modelled as functions on 0..n-1 (same indices as the       *)
(* source).  The candidates vector is a sequence (index a of the source is *)
(* position a+1).  Matrix entries are integers (integer-valued doubles).   *)
(* A call is split at the four phases of its row loop: accumulate (the     *)
(* nested jj/kk loops), finalize (the chain walk), select (sort or         *)
(* partial_sort) and emit (write-out, clear, Cp[i+1]).                     *)
(***************************************************************************)
EXTENDS Integers, Sequences, FiniteSets, TLC

VARIABLES
    Ap, Aj, Ax,      \* CSR arrays of A
    Bp, Bj, Bx,      \* CSR arrays of B
    ntop,            \* cap per row
    lower_bound,     \* exclusive threshold
    fn,              \* the entry point being executed: "only", "topn", "plus"
    pc,              \* position in its row loop: "acc", "fin", "sel", "emit"
    i,               \* row index of the running call
    next,            \* std::vector<int> next(n_col, -1)
    sums,            \* std::vector<double> sums(n_col, 0)
    head,            \* head of the chain of touched columns
    length,          \* number of columns linked in the chain
    candidates,      \* std::vector<candidate>
    len,             \* number of candidates to emit
    nnz,             \* running nonzero counter
    Cp, Cj, Cx,      \* output CSR of each value-producing call, keyed by fn
    minmax_ntop,     \* *minmax_ntop of each call that returns it, keyed by fn
    unmarked         \* std::vector<bool> unmarked(n_col, true)

vars == <<Ap, Aj, Ax, Bp, Bj, Bx, ntop, lower_bound, fn, pc, i, next, sums,
          head, length, candidates, len, nnz, Cp, Cj, Cx, minmax_ntop, unmarked>>

inputs == <<Ap, Aj, Ax, Bp, Bj, Bx, ntop, lower_bound>>

(***************************************************************************)
(* The instance: A is n_row x n_inner, B is n_inner x n_col.               *)
(***************************************************************************)
n_row == 2
n_inner == 2
n_col == 2

(***************************************************************************)
(* Bounds of the inputs.                                                   *)
(***************************************************************************)
\* stored entries of A and B together, runs of Spec
MaxNnz == 3
\* stored entries of A and B together, runs of SpecSizing
MaxNnzSizing == 5
\* largest cap per row
MaxNtop == 2

ValsA == {-1, 1}
ValsB == {1, 2}
LowerBounds == {-1, 0, 1}

(***************************************************************************)
(* Valid CSR matrices with nr rows, column indices in 0..nc-1, values in   *)
(* vals and exactly m stored entries.  Column indices of a row are in any  *)
(* order and may repeat.                                                   *)
(***************************************************************************)
RowPointers(nr, m) ==
    {p \in [0..nr -> 0..m] :
        /\ p[0] = 0
        /\ p[nr] = m
        /\ \A r \in 0..(nr - 1) : p[r] <= p[r + 1]}

CSR(nr, nc, vals, m) ==
    {[p |-> p, j |-> j, x |-> x] :
        p \in RowPointers(nr, m),
        j \in [0..(m - 1) -> 0..(nc - 1)],
        x \in [0..(m - 1) -> vals]}

CSRPairs(valsA, valsB, maxnnz) ==
    UNION {CSR(n_row, n_inner, valsA, ma) \X CSR(n_inner, n_col, valsB, mb) :
              <<ma, mb>> \in {q \in (0..maxnnz) \X (0..maxnnz) : q[1] + q[2] <= maxnnz}}

(***************************************************************************)
(* candidate_cmp, and what std::sort / std::partial_sort guarantee with    *)
(* it.  The order of equivalent elements is unspecified, so every          *)
(* arrangement that meets the guarantee is a possible result.              *)
(***************************************************************************)
candidate_cmp_reversed(c_i, c_j) == c_i.value < c_j.value

candidate_cmp(c_i, c_j) == c_i.value > c_j.value

Perms(n) == {p \in [1..n -> 1..n] : \A a, b \in 1..n : a # b => p[a] # p[b]}

Rearranged(c, p) == [a \in 1..Len(c) |-> c[p[a]]]

\* [first, middle) holds the smallest (by cmp) elements, in order.
PartialSorted(c, middle) ==
    /\ \A a, b \in 1..middle : a < b => ~candidate_cmp(c[b], c[a])
    /\ \A a \in 1..middle : \A b \in (middle + 1)..Len(c) : ~candidate_cmp(c[b], c[a])

Sorted(c) == \A a, b \in 1..Len(c) : a < b => ~candidate_cmp(c[b], c[a])

(***************************************************************************)
(* Row accumulation: the nested jj/kk loops.  st is the record of the      *)
(* locals next, sums, head, length.                                        *)
(***************************************************************************)
MulAdd_assign(s, v, b) == v * b

MulAdd(s, v, b) == s + v * b

AccStep(st, v, kk) ==
    LET k  == Bj[kk]
        s1 == [st EXCEPT !.sums[k] = MulAdd(@, v, Bx[kk])]
    IN  IF s1.next[k] = -1
        THEN [s1 EXCEPT !.next[k] = s1.head, !.head = k, !.length = @ + 1]
        ELSE s1

RECURSIVE InnerLoop(_, _, _, _)
InnerLoop(st, v, kk, kk_end) ==
    IF kk < kk_end THEN InnerLoop(AccStep(st, v, kk), v, kk + 1, kk_end) ELSE st

RECURSIVE OuterLoop(_, _, _)
OuterLoop(st, jj, jj_end) ==
    IF jj < jj_end
    THEN LET j == Aj[jj]
         IN  OuterLoop(InnerLoop(st, Ax[jj], Bp[j], Bp[j + 1]), jj + 1, jj_end)
    ELSE st

AccumulateRow ==
    OuterLoop([next |-> next, sums |-> sums, head |-> -2, length |-> 0],
              Ap[i], Ap[i + 1])

(***************************************************************************)
(* Finalize: walk the chain `length` times, collect candidates, reset.     *)
(***************************************************************************)
AboveBound_ge(s, lb) == s >= lb

AboveBound(s, lb) == s > lb

ClearSum_keep(s, temp) == s

ClearSum(s, temp) == [s EXCEPT ![temp] = 0]

WalkStep(st, lb) ==
    LET temp == st.head
    IN  [candidates |->
             IF AboveBound(st.sums[temp], lb)
             THEN Append(st.candidates, [index |-> temp, value |-> st.sums[temp]])
             ELSE st.candidates,
         head |-> st.next[temp],
         next |-> [st.next EXCEPT ![temp] = -1],
         sums |-> ClearSum(st.sums, temp)]

RECURSIVE Walk(_, _, _, _)
Walk(st, lb, jj, n) == IF jj < n THEN Walk(WalkStep(st, lb), lb, jj + 1, n) ELSE st

FinalizeRow(lb) ==
    /\ pc = "fin"
    /\ LET st == Walk([candidates |-> candidates, head |-> head,
                       next |-> next, sums |-> sums], lb, 0, length)
       IN  /\ candidates' = st.candidates
           /\ head' = st.head
           /\ next' = st.next
           /\ sums' = st.sums
    /\ pc' = "sel"
    /\ UNCHANGED <<inputs, fn, i, length, len, nnz, Cp, Cj, Cx, minmax_ntop, unmarked>>

(***************************************************************************)
(* Select: partial_sort when more than ntop candidates, else sort.         *)
(***************************************************************************)
EmitLen_nocap(size, n) == size

EmitLen(size, n) == IF size > n THEN n ELSE size

SelectRow ==
    /\ pc = "sel"
    /\ LET size == Len(candidates)
       IN  /\ \E p \in Perms(size) :
                 LET c == Rearranged(candidates, p)
                 IN  /\ IF size > ntop THEN PartialSorted(c, ntop) ELSE Sorted(c)
                     /\ candidates' = c
           /\ len' = EmitLen(size, ntop)
    /\ pc' = "emit"
    /\ UNCHANGED <<inputs, fn, i, next, sums, head, length, nnz, Cp, Cj, Cx,
                   minmax_ntop, unmarked>>

(***************************************************************************)
(* Emit: write the first len candidates, clear the buffer, set Cp[i+1].    *)
(***************************************************************************)
EmitRow(f) ==
    /\ pc = "emit"
    /\ Cj' = [Cj EXCEPT ![f] =
                 @ @@ [a \in nnz..(nnz + len - 1) |-> candidates[a - nnz + 1].index]]
    /\ Cx' = [Cx EXCEPT ![f] =
                 @ @@ [a \in nnz..(nnz + len - 1) |-> candidates[a - nnz + 1].value]]
    /\ nnz' = nnz + len
    /\ candidates' = <<>>
    /\ Cp' = [Cp EXCEPT ![f] = @ @@ ((i + 1) :> (nnz + len))]
    /\ i' = i + 1
    /\ pc' = "acc"
    /\ UNCHANGED <<inputs, fn, next, sums, head, length, len, minmax_ntop, unmarked>>

(***************************************************************************)
(* sparse_dot_topn_source                                                  *)
(***************************************************************************)
TopnAccumulate ==
    /\ fn = "topn" /\ pc = "acc" /\ i < n_row
    /\ LET st == AccumulateRow
       IN  /\ next' = st.next
           /\ sums' = st.sums
           /\ head' = st.head
           /\ length' = st.length
    /\ pc' = "fin"
    /\ UNCHANGED <<inputs, fn, i, candidates, len, nnz, Cp, Cj, Cx, minmax_ntop, unmarked>>

TopnFinalize == fn = "topn" /\ FinalizeRow(lower_bound)

TopnSelect == fn = "topn" /\ SelectRow

TopnEmit == fn = "topn" /\ EmitRow("topn")

(***************************************************************************)
(* sparse_dot_plus_minmax_topn_source                                      *)
(***************************************************************************)
RunningMax_min(l, cur) == IF l > cur THEN cur ELSE l

RunningMax_last(l, cur) == l

RunningMax(l, cur) == IF l > cur THEN l ELSE cur

PlusEnter ==
    /\ fn = "topn" /\ pc = "acc" /\ i = n_row
    /\ fn' = "plus"
    /\ next' = [k \in 0..(n_col - 1) |-> -1]
    /\ sums' = [k \in 0..(n_col - 1) |-> 0]
    /\ candidates' = <<>>
    /\ nnz' = 0
    /\ Cp' = [Cp EXCEPT !.plus = (0 :> 0)]
    /\ minmax_ntop' = [minmax_ntop EXCEPT !.plus = 0]
    /\ i' = 0
    /\ UNCHANGED <<inputs, pc, head, length, len, Cj, Cx, unmarked>>

PlusAccumulate ==
    /\ fn = "plus" /\ pc = "acc" /\ i < n_row
    /\ LET st == AccumulateRow
       IN  /\ next' = st.next
           /\ sums' = st.sums
           /\ head' = st.head
           /\ length' = st.length
           /\ minmax_ntop' = [minmax_ntop EXCEPT !.plus = RunningMax(st.length, @)]
    /\ pc' = "fin"
    /\ UNCHANGED <<inputs, fn, i, candidates, len, nnz, Cp, Cj, Cx, unmarked>>

PlusFinalize_ge == fn = "plus" /\ FinalizeRow(lower_bound - 1)

PlusFinalize == fn = "plus" /\ FinalizeRow(lower_bound)

PlusSelect == fn = "plus" /\ SelectRow

PlusEmit == fn = "plus" /\ EmitRow("plus")

(***************************************************************************)
(* sparse_dot_only_minmax_topn_source                                      *)
(***************************************************************************)
OnlyStep(st, kk) ==
    LET k == Bj[kk]
    IN  IF st.unmarked[k]
        THEN [st EXCEPT !.unmarked[k] = FALSE, !.length = @ + 1]
        ELSE st

RECURSIVE OnlyInnerLoop(_, _, _)
OnlyInnerLoop(st, kk, kk_end) ==
    IF kk < kk_end THEN OnlyInnerLoop(OnlyStep(st, kk), kk + 1, kk_end) ELSE st

RECURSIVE OnlyOuterLoop(_, _, _)
OnlyOuterLoop(st, jj, jj_end) ==
    IF jj < jj_end
    THEN LET j == Aj[jj]
         IN  OnlyOuterLoop(OnlyInnerLoop(st, Bp[j], Bp[j + 1]), jj + 1, jj_end)
    ELSE st

OnlyRow ==
    /\ fn = "only" /\ i < n_row
    /\ LET st == OnlyOuterLoop([unmarked |-> unmarked, length |-> 0], Ap[i], Ap[i + 1])
       IN  /\ unmarked' = st.unmarked
           /\ length' = st.length
           /\ minmax_ntop' = [minmax_ntop EXCEPT !.only = RunningMax(st.length, @)]
    /\ i' = i + 1
    /\ UNCHANGED <<inputs, fn, pc, next, sums, head, candidates, len, nnz, Cp, Cj, Cx>>

TopnEnter ==
    /\ fn = "only" /\ i = n_row
    /\ fn' = "topn"
    /\ next' = [k \in 0..(n_col - 1) |-> -1]
    /\ sums' = [k \in 0..(n_col - 1) |-> 0]
    /\ candidates' = <<>>
    /\ nnz' = 0
    /\ Cp' = [Cp EXCEPT !.topn = (0 :> 0)]
    /\ i' = 0
    /\ UNCHANGED <<inputs, pc, head, length, len, Cj, Cx, minmax_ntop, unmarked>>

(***************************************************************************)
(* Specifications.                                                         *)
(* Spec: a caller runs sparse_dot_topn_source and then                     *)
(* sparse_dot_plus_minmax_topn_source on the same inputs.                  *)
(* SpecSizing: a caller runs sparse_dot_only_minmax_topn_source and then   *)
(* sparse_dot_topn_source on the same inputs (values all 1, threshold 0,   *)
(* any cap).                                                               *)
(***************************************************************************)
Locals ==
    /\ pc = "acc"
    /\ i = 0
    /\ next = [k \in 0..(n_col - 1) |-> -1]
    /\ sums = [k \in 0..(n_col - 1) |-> 0]
    /\ head = -2
    /\ length = 0
    /\ candidates = <<>>
    /\ len = 0
    /\ nnz = 0
    /\ Cj = [topn |-> <<>>, plus |-> <<>>]
    /\ Cx = [topn |-> <<>>, plus |-> <<>>]
    /\ minmax_ntop = [plus |-> 0, only |-> 0]
    /\ unmarked = [k \in 0..(n_col - 1) |-> TRUE]

Init ==
    /\ \E ab \in CSRPairs(ValsA, ValsB, MaxNnz) :
          /\ Ap = ab[1].p /\ Aj = ab[1].j /\ Ax = ab[1].x
          /\ Bp = ab[2].p /\ Bj = ab[2].j /\ Bx = ab[2].x
    /\ ntop \in 0..MaxNtop
    /\ lower_bound \in LowerBounds
    /\ fn = "topn"
    /\ Cp = [topn |-> (0 :> 0), plus |-> <<>>]
    /\ Locals

Next ==
    \/ TopnAccumulate
    \/ TopnFinalize
    \/ TopnSelect
    \/ TopnEmit
    \/ PlusEnter
    \/ PlusAccumulate
    \/ PlusFinalize
    \/ PlusSelect
    \/ PlusEmit

Spec == Init /\ [][Next]_vars

InitSizing ==
    /\ \E ab \in CSRPairs({1}, {1}, MaxNnzSizing) :
          /\ Ap = ab[1].p /\ Aj = ab[1].j /\ Ax = ab[1].x
          /\ Bp = ab[2].p /\ Bj = ab[2].j /\ Bx = ab[2].x
    /\ ntop \in 0..MaxNtop
    /\ lower_bound = 0
    /\ fn = "only"
    /\ Cp = [topn |-> <<>>, plus |-> <<>>]
    /\ Locals

NextSizing ==
    \/ OnlyRow
    \/ TopnEnter
    \/ TopnAccumulate
    \/ TopnFinalize
    \/ TopnSelect
    \/ TopnEmit

SpecSizing == InitSizing /\ [][NextSizing]_vars

(***************************************************************************)
(* Reference definitions: the dense-equivalent matrices and their product. *)
(***************************************************************************)
RECURSIVE SumOver(_, _)
SumOver(S, X) ==
    IF S = {} THEN 0
    ELSE LET e == CHOOSE e \in S : TRUE IN X[e] + SumOver(S \ {e}, X)

DenseA(r, j) == SumOver({e \in Ap[r]..(Ap[r + 1] - 1) : Aj[e] = j}, Ax)

DenseB(j, k) == SumOver({e \in Bp[j]..(Bp[j + 1] - 1) : Bj[e] = k}, Bx)

Product(r, k) ==
    SumOver(0..(n_inner - 1), [j \in 0..(n_inner - 1) |-> DenseA(r, j) * DenseB(j, k)])

\* columns reachable from row r: some j with A[r,j] stored and B[j,k] stored
Reach(r) ==
    {k \in 0..(n_col - 1) :
        \E jj \in Ap[r]..(Ap[r + 1] - 1) :
            \E kk \in Bp[Aj[jj]]..(Bp[Aj[jj] + 1] - 1) : Bj[kk] = k}

\* columns of the dense product of row r above the threshold
Qualifying(r) == {k \in 0..(n_col - 1) : Product(r, k) > lower_bound}

\* reachable columns of row r above the threshold
QualifyingReached(r) == {k \in Reach(r) : Product(r, k) > lower_bound}

MaxOf(S) == CHOOSE m \in S : \A x \in S : x <= m

MinOf(a, b) == IF a < b THEN a ELSE b

RowPos(f, r) == Cp[f][r]..(Cp[f][r + 1] - 1)

Returned(f) == fn = f /\ pc = "acc" /\ i = n_row

\* output row r of call f is the ntop largest members of Q, up to ties
IsTopN(f, r, Q) ==
    LET pos  == RowPos(f, r)
        cols == {Cj[f][a] : a \in pos}
    IN  /\ Cardinality(cols) = Cardinality(pos)
        /\ cols \subseteq Q
        /\ \A a \in pos : Cx[f][a] = Product(r, Cj[f][a])
        /\ Cardinality(pos) = MinOf(ntop, Cardinality(Q))
        /\ \A k \in Q \ cols : \A a \in pos : Product(r, k) <= Cx[f][a]

(***************************************************************************)
(* C1 (as stated): after every completed row of sparse_dot_topn_source,    *)
(* each completed output row r holds the ntop largest of the pairs         *)
(* (k, Product(r,k)) with Product(r,k) > lower_bound, k over ALL columns   *)
(* 0..n_col-1 of the dense product.                                        *)
(***************************************************************************)
C1_TopNOfDenseProduct ==
    (fn = "topn" /\ pc = "acc") =>
        \A r \in 0..(i - 1) : IsTopN("topn", r, Qualifying(r))

(***************************************************************************)
(* C1 (amended): each completed output row r of sparse_dot_topn_source     *)
(* holds the ntop largest of the pairs (k, Product(r,k)) with              *)
(* Product(r,k) > lower_bound, k over the columns REACHABLE from row r     *)
(* (structural zeros of the product are never emitted, whatever the        *)
(* threshold).                                                             *)
(***************************************************************************)
C1_TopNOfReachedProduct ==
    (fn = "topn" /\ pc = "acc") =>
        \A r \in 0..(i - 1) : IsTopN("topn", r, QualifyingReached(r))

\* the call has returned, the threshold is negative, and in some row the cap
\* cut the candidates of a non-empty output row
C1_Witness ==
    /\ Returned("topn")
    /\ lower_bound < 0
    /\ \E r \in 0..(n_row - 1) :
          /\ Cardinality(QualifyingReached(r)) > ntop
          /\ Cardinality(RowPos("topn", r)) >= 1

(***************************************************************************)
(* C2 (as stated): when sparse_dot_only_minmax_topn_source has returned,   *)
(* minmax_ntop is the maximum over rows of the number of distinct columns  *)
(* reachable from the row.                                                 *)
(***************************************************************************)
MaxReach == MaxOf({Cardinality(Reach(r)) : r \in 0..(n_row - 1)} \cup {0})

C2_OnlyMinmaxIsMaxReach ==
    (fn = "topn" \/ (fn = "only" /\ i = n_row)) => minmax_ntop.only = MaxReach

(***************************************************************************)
(* C3 (as stated): after the width-only call, no output row of             *)
(* sparse_dot_topn_source on the same A, B has more entries than the       *)
(* minmax_ntop the width-only call returned, and                           *)
(* Cp[n_row] <= n_row * minmax_ntop.                                       *)
(***************************************************************************)
C3_SizingProtocolSafe ==
    fn = "topn" =>
        /\ \A r \in 0..(n_row - 1) :
              (r + 1) \in DOMAIN Cp.topn =>
                  Cardinality(RowPos("topn", r)) <= minmax_ntop.only
        /\ nnz <= n_row * minmax_ntop.only

(***************************************************************************)
(* C4 (as stated): the minmax_ntop returned by                             *)
(* sparse_dot_plus_minmax_topn_source equals the maximum over rows of the  *)
(* number of candidate columns, those whose product value is strictly      *)
(* greater than lower_bound.                                               *)
(***************************************************************************)
MaxCandidates ==
    MaxOf({Cardinality(QualifyingReached(r)) : r \in 0..(n_row - 1)} \cup {0})

C4_MinmaxIsMaxCandidates ==
    Returned("plus") => minmax_ntop.plus = MaxCandidates

(***************************************************************************)
(* C4 (amended): the minmax_ntop returned by                               *)
(* sparse_dot_plus_minmax_topn_source is at least the maximum over rows of *)
(* the number of candidate columns, and equals it when every column        *)
(* touched in every row has a product value strictly greater than          *)
(* lower_bound.                                                            *)
(***************************************************************************)
AllTouchedAbove == \A r \in 0..(n_row - 1) : QualifyingReached(r) = Reach(r)

C4_MinmaxBoundsMaxCandidates ==
    Returned("plus") =>
        /\ minmax_ntop.plus >= MaxCandidates
        /\ AllTouchedAbove => minmax_ntop.plus = MaxCandidates

\* returned with a minmax_ntop strictly above a non-zero candidate maximum
C4_Witness ==
    /\ Returned("plus")
    /\ MaxCandidates >= 1
    /\ minmax_ntop.plus > MaxCandidates

(***************************************************************************)
(* C5: in sparse_dot_plus_minmax_topn_source the chain length of a row is  *)
(* the number of distinct columns reachable from it, whatever their sums,  *)
(* and minmax_ntop is the maximum of the chain lengths of the rows         *)
(* accumulated so far; neither depends on ntop or lower_bound.             *)
(***************************************************************************)
RowsAccumulated == IF pc = "acc" THEN 0..(i - 1) ELSE 0..i

C5_MinmaxIsMaxChainLength ==
    fn = "plus" =>
        /\ pc # "acc" => length = Cardinality(Reach(i))
        /\ minmax_ntop.plus =
               MaxOf({Cardinality(Reach(r)) : r \in RowsAccumulated} \cup {0})

\* returned; the widest row has a touched column whose sum cancelled to zero
\* and a later row is narrower
C5_Witness ==
    /\ Returned("plus")
    /\ lower_bound >= 0
    /\ \E r \in 0..(n_row - 2) :
          /\ Cardinality(Reach(r)) = minmax_ntop.plus
          /\ Cardinality(Reach(r + 1)) < minmax_ntop.plus
          /\ \E k \in Reach(r) : Product(r, k) = 0

(***************************************************************************)
(* C6: in both value-producing calls Cp[0] = 0, the row pointers written   *)
(* so far are non-decreasing, no row has more than ntop entries, and after *)
(* every completed row the counter nnz is Cp[i] and at most i * ntop.      *)
(***************************************************************************)
C6_RowPointers ==
    /\ \A f \in {"topn", "plus"} :
          DOMAIN Cp[f] # {} =>
              /\ Cp[f][0] = 0
              /\ \A r \in 0..(n_row - 1) :
                    (r + 1) \in DOMAIN Cp[f] =>
                        /\ Cp[f][r] <= Cp[f][r + 1]
                        /\ Cp[f][r + 1] - Cp[f][r] <= ntop
    /\ (fn \in {"topn", "plus"} /\ pc = "acc") =>
          /\ nnz = Cp[fn][i]
          /\ nnz <= i * ntop

\* returned from the second call; some row had more candidates than the cap
\* and still emitted
C6_Witness ==
    /\ Returned("plus")
    /\ ntop >= 1
    /\ \E r \in 0..(n_row - 1) :
          /\ Cardinality(QualifyingReached(r)) > ntop
          /\ Cp.plus[r + 1] - Cp.plus[r] = ntop

C8_AboveLowerBound ==
    \A f \in {"topn", "plus"} : \A a \in DOMAIN Cx[f] : Cx[f][a] > lower_bound

\* returned; some row emitted a column and skipped a touched column whose
\* sum equals lower_bound
C8_Witness ==
    /\ Returned("plus")
    /\ \E r \in 0..(n_row - 1) :
          /\ Cardinality(RowPos("plus", r)) >= 1
          /\ \E k \in Reach(r) : Product(r, k) = lower_bound

RECURSIVE Chain(_, _)
Chain(h, n) == IF n = 0 THEN {} ELSE {h} \cup Chain(next[h], n - 1)

C10_ScratchClean ==
    /\ (fn \in {"topn", "plus"} /\ pc = "acc") =>
          /\ \A k \in 0..(n_col - 1) : sums[k] = 0 /\ next[k] = -1
          /\ candidates = <<>>
    /\ (fn \in {"topn", "plus"} /\ pc = "fin") =>
          /\ Chain(head, length) = Reach(i)
          /\ Cardinality(Reach(i)) = length

\* number of (jj, kk) steps of row r that add into column k
Paths(r, k) ==
    {q \in (Ap[r]..(Ap[r + 1] - 1)) \X (0..(Bp[n_inner] - 1)) :
        /\ q[2] \in Bp[Aj[q[1]]]..(Bp[Aj[q[1]] + 1] - 1)
        /\ Bj[q[2]] = k}

\* a later row starts after a row in which a column was reached twice
C10_Witness ==
    /\ fn \in {"topn", "plus"}
    /\ pc = "acc"
    /\ i >= 1
    /\ \E k \in 0..(n_col - 1) : Cardinality(Paths(i - 1, k)) >= 2

====
